---- MODULE Spec2Model ----
(***************************************************************************)
(* State-machine model of the container controller of the daemon           *)
(* (src/src/controllers/docker.js, class Docker): reconciliation at        *)
(* construction, the attach/exec/write session, the telemetry stream, the  *)
(* lifecycle pass-throughs and the rebuild pipeline.                       *)
(*                                                                         *)
(* Every JavaScript callback runs to completion, so one action is one      *)
(* handler: either an API method up to its first asynchronous runtime      *)
(* request, or the callback of such a request, or a stream event           *)
(* listener.  The container runtime is the environment: the outcome of     *)
(* every request is chosen nondeterministically when its callback fires.   *)
(***************************************************************************)
EXTENDS Integers, Sequences, FiniteSets, Bags, TLC

\* ------------------------------------------------------------------ bounds
\* API calls in flight at once (each waits for a runtime callback).
MaxCalls == 2
\* Streams open at once.
MaxChans == 2
\* rebuild() calls issued in one behaviour.
MaxBuilds == 2
\* Host IPs of a build configuration, and entries of one IP's port list.
MaxIps == 2
MaxPorts == 1
\* Memory and swap (MB) and cpu of a build configuration range over
\* -MaxMb..MaxMb and -MaxCpu..MaxCpu, and the values of a usual one.
MaxMb == 2
MaxCpu == 2
\* Entries of the environment a build configuration comes with.
MaxEnv == 2

\* --------------------------------------------------------------- constants
Status == {"OFF", "STARTING", "ON", "STOPPING"}

\* Error values handed to callbacks.  "none" is JavaScript's undefined/null.
Busy == "An active stream is already in use for this container."
NoStream == "No writable stream was detected."
AlreadyStarted == "HTTP code is 304 which indicates error: container already started"

PassThrough == {"stop", "kill", "pause", "unpause"}

\* Text is a sequence of one-character strings.
Commands == {<<"s", "a", "y">>}
OutChunks == {<<"o">>}

VARIABLES
    status,      \* server.status, written through server.setStatus
    container,   \* id of the container this.container is bound to
    stream,      \* whether this.stream holds a stream (FALSE: undefined)
    procStream,  \* whether this.procStream holds a stream (FALSE: undefined)
    procData,    \* this.procData: the telemetry snapshot
    chan,        \* number of streams of each kind handed out and not yet ended
    calls,       \* bag of the API calls in flight, each with the request it waits for
    ev,          \* the handler that ran last: its input and what it sent out
    rb           \* build configuration and the runtime's containers

vars == <<status, container, stream, procStream, procData, chan, calls, ev, rb>>

\* ------------------------------------------------------- telemetry decoding
Digits == {"1", "2"}
Letters == {"a", "b"}

DigitVal(d) == IF d = "1" THEN 1 ELSE 2

\* Decoded JSON values, all of one record shape.
Undefined == [t |-> "undefined", n |-> 0, s |-> <<>>, kv |-> <<>>]
Num(n) == [t |-> "num", n |-> n, s |-> <<>>, kv |-> <<>>]
Str(s) == [t |-> "str", n |-> 0, s |-> s, kv |-> <<>>]
Obj(kv) == [t |-> "obj", n |-> 0, s |-> <<>>, kv |-> kv]

ParseFail == [ok |-> FALSE, v |-> Undefined, i |-> 0]
ParseOk(v, i) == [ok |-> TRUE, v |-> v, i |-> i]

\* An object keeps one value per key: a repeated key overwrites in place.
Put(kv, k, v) ==
    IF \E j \in 1..Len(kv) : kv[j][1] = k
    THEN [j \in 1..Len(kv) |-> IF kv[j][1] = k THEN <<k, v>> ELSE kv[j]]
    ELSE Append(kv, <<k, v>>)

RECURSIVE ParseDigits(_, _, _)
ParseDigits(p, i, acc) ==
    IF i <= Len(p) /\ p[i] \in Digits
    THEN ParseDigits(p, i + 1, acc * 10 + DigitVal(p[i]))
    ELSE [n |-> acc, i |-> i]

RECURSIVE ParseLetters(_, _, _)
ParseLetters(p, i, acc) ==
    IF i <= Len(p) /\ p[i] \in Letters
    THEN ParseLetters(p, i + 1, Append(acc, p[i]))
    ELSE [s |-> acc, i |-> i]

\* p[i] is the opening quote.
ParseString(p, i) ==
    LET r == ParseLetters(p, i + 1, <<>>)
    IN  IF r.i <= Len(p) /\ p[r.i] = "\""
        THEN ParseOk(Str(r.s), r.i + 1)
        ELSE ParseFail

RECURSIVE ParseValue(_, _)
RECURSIVE ParseMembers(_, _, _)
ParseValue(p, i) ==
    IF i > Len(p) THEN ParseFail
    ELSE IF p[i] \in Digits
         THEN LET r == ParseDigits(p, i, 0) IN ParseOk(Num(r.n), r.i)
    ELSE IF p[i] = "\"" THEN ParseString(p, i)
    ELSE IF p[i] = "{"
         THEN IF i + 1 <= Len(p) /\ p[i + 1] = "}"
              THEN ParseOk(Obj(<<>>), i + 2)
              ELSE ParseMembers(p, i + 1, <<>>)
    ELSE ParseFail

\* A member is expected at p[i]; kv holds the members read so far.
ParseMembers(p, i, kv) ==
    IF i > Len(p) \/ p[i] # "\"" THEN ParseFail
    ELSE LET k == ParseString(p, i)
         IN  IF ~k.ok \/ k.i > Len(p) \/ p[k.i] # ":" THEN ParseFail
             ELSE LET v == ParseValue(p, k.i + 1)
                  IN  IF ~v.ok \/ v.i > Len(p) THEN ParseFail
                      ELSE IF p[v.i] = ","
                           THEN ParseMembers(p, v.i + 1, Put(kv, k.v.s, v.v))
                      ELSE IF p[v.i] = "}"
                           THEN ParseOk(Obj(Put(kv, k.v.s, v.v)), v.i + 1)
                      ELSE ParseFail

\* JSON.parse: the whole text must be one value; anything else throws.
JSONParse(p) ==
    LET r == ParseValue(p, 1)
    IN  IF r.ok /\ r.i = Len(p) + 1 THEN r ELSE ParseFail

\* Usage payloads the runtime sends, and the pieces a split delivers.
PayloadA == <<"{", "\"", "a", "\"", ":", "1", "}">>
PayloadB == <<"{", "\"", "a", "\"", ":", "2", ",", "\"", "b", "\"", ":", "1", "}">>
FirstHalf(p) == SubSeq(p, 1, Len(p) \div 2)
SecondHalf(p) == SubSeq(p, Len(p) \div 2 + 1, Len(p))
TeleChunks == {PayloadA, PayloadB, FirstHalf(PayloadA), SecondHalf(PayloadA)}

\* ------------------------------------------------------------------ helpers
\* One API call in flight: what was called, the runtime request its
\* continuation waits for (pc), and what its callback has been given.
Idle ==
    [op |-> "idle", pc |-> "idle", cb |-> 0, err |-> "none", val |-> "undef",
     cmd |-> <<>>, target |-> 0, newId |-> 0, rid |-> 0, rimage |-> "",
     nExists |-> 0, nPull |-> 0, nCreate |-> 0, nRemove |-> 0,
     bindings |-> {}, exposed |-> {}, host |-> <<>>, env |-> <<>>]

CallOn(op, pc, handle) == [Idle EXCEPT !.op = op, !.pc = pc, !.target = handle]
NewCall(op, pc) == CallOn(op, pc, container)

\* next(e, v): the caller's callback runs.
Finish(rec, e, v) ==
    [rec EXCEPT !.pc = "done", !.cb = @ + 1, !.err = e, !.val = v]

\* A call whose callback has run is no longer in flight.
Put1(rec) == IF rec.pc = "done" THEN EmptyBag ELSE SetToBag({rec})
Issue(rec) == calls (+) Put1(rec)
Store(old, rec) == (calls (-) SetToBag({old})) (+) Put1(rec)

CanCall == BagCardinality(calls) < MaxCalls
At(pc) == {rec \in BagToSet(calls) : rec.pc = pc}

\* The last handler: its name, the call it served (as the handler left it),
\* the runtime's answer, the stream concerned (held or orphan), the text
\* that crossed the boundary (to server.output, to the stream's input, from
\* the usage feed), whether server.streamClosed() was called, and the
\* calls of server.output() it made.
Event(h, arg, ch, d, closed, rec) ==
    [h |-> h, arg |-> arg, ch |-> ch, data |-> d, closed |-> closed, call |-> rec,
     out |-> <<>>]

\* A listener that passes its chunk to the sink twice.
ServerOutputTwice(d) == <<d, d>>

\* self.server.output(data)
ServerOutput(d) == <<d>>

\* Streams of one kind differ only in being the one the controller holds:
\* chan counts the open ones, and those it does not hold are orphans whose
\* listeners still run.
Kinds == {"attach", "exec", "stats"}
OpenCount == chan["attach"] + chan["exec"] + chan["stats"]
CanOpen == OpenCount < MaxChans
Opened(kind) == [chan EXCEPT ![kind] = @ + 1]
Ended(kind) == [chan EXCEPT ![kind] = @ - 1]
Holds(kind) ==
    IF kind = "attach" THEN stream ELSE IF kind = "stats" THEN procStream ELSE FALSE
Orphans(kind) == chan[kind] - (IF Holds(kind) THEN 1 ELSE 0)
\* An event of a stream of this kind: of the held one, or of an orphan.
Emits(kind, which) ==
    IF which = "held" THEN Holds(kind) ELSE Orphans(kind) > 0
Which == {"held", "orphan"}

\* isStream(this.stream)
IsStream(s) == s

\* isStream.isWritable(this.stream): an attach stream is a duplex.
IsWritable(s) == IsStream(s)

\* attach()'s guard: typeof this.stream !== 'undefined' || isStream(this.stream)
AttachBusy == stream # FALSE \/ IsStream(stream)

\* exec()'s guard: isStream(this.stream)
ExecBusy == IsStream(stream)

\* data.State.Running as inspect reports it, and reattach()'s test of it.
InspectResults == {"error", "true", "false", "undefined", "other"}
\* The running test without the test for a missing field.
IsRunningNotFalse(r) == r # "false"
IsRunning(r) == r # "undefined" /\ r # "false"

\* A callback chain that ends without next when there is no error.
AttachNextOnlyErrors(rec, e) ==
    IF e = "none" THEN [rec EXCEPT !.pc = "lost"]
    ELSE Finish(rec, e, IF rec.op = "reattach" THEN "false" ELSE "undef")

\* The callback attach() was given: reattach() wraps its own around it as
\* next(attachErr, !attachErr); a direct caller gets next(err).
AttachNext(rec, e) ==
    IF rec.op = "reattach"
    THEN Finish(rec, e, IF e = "none" THEN "true" ELSE "false")
    ELSE Finish(rec, e, "undef")

\* attach() up to its runtime request.
AttachStep(rec) ==
    IF AttachBusy THEN AttachNext(rec, Busy) ELSE [rec EXCEPT !.pc = "attach"]

\* ---------------------------------------------------------- reconciliation
\* reattach(): ask the runtime for the container's state.
Reattach ==
    /\ CanCall
    /\ calls' = Issue(NewCall("reattach", "inspect"))
    /\ ev' = Event("reattach", "", "", <<>>, FALSE, NewCall("reattach", "inspect"))
    /\ UNCHANGED <<status, container, stream, procStream, procData, chan, rb>>

\* ReattachCall that reports a running container without attaching to it.
ReattachCallNoAttach(rec, r) ==
    IF r = "error" THEN Finish(rec, "inspect_failed", "undef")
    ELSE IF IsRunning(r) THEN Finish(rec, "none", "true")
    ELSE Finish(rec, "none", "undef")

\* ReattachStatus that leaves status to the attach that follows.
ReattachStatusLate(r, old) == old

\* What dockerReattach leaves of status and of the call.
ReattachStatus(r, old) == IF r # "error" /\ IsRunning(r) THEN "ON" ELSE old
ReattachCall(rec, r) ==
    IF r = "error" THEN Finish(rec, "inspect_failed", "undef")
    ELSE IF IsRunning(r) THEN AttachStep(rec)
    ELSE Finish(rec, "none", "undef")

\* dockerReattach: the inspect callback.
DockerReattach(c, r) ==
    /\ c.pc = "inspect"
    /\ status' = ReattachStatus(r, status)
    /\ calls' = Store(c, ReattachCall(c, r))
    /\ ev' = Event("dockerReattach", r, "", <<>>, FALSE, ReattachCall(c, r))
    /\ UNCHANGED <<container, stream, procStream, procData, chan, rb>>

\* ------------------------------------------------------------------ session
Attach ==
    /\ AttachBusy \/ CanCall
    /\ calls' = Issue(AttachStep(NewCall("attach", "entry")))
    /\ ev' = Event("attach", "", "", <<>>, FALSE, AttachStep(NewCall("attach", "entry")))
    /\ UNCHANGED <<status, container, stream, procStream, procData, chan, rb>>

\* dockerAttach: the runtime's attach callback.  On success the stream is
\* kept, its listeners are installed and stats(next) is called.
DockerAttach(c, r) ==
    /\ c.pc = "attach"
    /\ IF r = "error"
       THEN /\ calls' = Store(c, AttachNext(c, "attach_failed"))
            /\ ev' = Event("dockerAttach", r, "", <<>>, FALSE,
                           AttachNext(c, "attach_failed"))
            /\ UNCHANGED <<stream, chan>>
       ELSE /\ CanOpen
            /\ chan' = Opened("attach")
            /\ stream' = TRUE
            /\ calls' = Store(c, [c EXCEPT !.pc = "stats"])
            /\ ev' = Event("dockerAttach", r, "held", <<>>, FALSE,
                           [c EXCEPT !.pc = "stats"])
    /\ UNCHANGED <<status, container, procStream, procData, rb>>

DockerAttachStreamData(ch, d) ==
    /\ Emits("attach", ch)
    /\ ev' = [Event("dockerAttachStreamData", "", ch, d, FALSE, Idle)
                 EXCEPT !.out = ServerOutput(d)]
    /\ UNCHANGED <<status, container, stream, procStream, procData, chan, calls, rb>>

\* dockerAttachStreamEnd that also calls stats().
DockerAttachStreamEndStats(ch) ==
    /\ Emits("attach", ch)
    /\ CanCall
    /\ chan' = Ended("attach")
    /\ stream' = FALSE
    /\ calls' = Issue(NewCall("stats", "stats"))
    /\ ev' = Event("dockerAttachStreamEnd", "", ch, <<>>, TRUE, Idle)
    /\ UNCHANGED <<status, container, procStream, procData, rb>>

DockerAttachStreamEnd(ch) ==
    /\ Emits("attach", ch)
    /\ chan' = Ended("attach")
    /\ stream' = FALSE
    /\ ev' = Event("dockerAttachStreamEnd", "", ch, <<>>, TRUE, Idle)
    /\ UNCHANGED <<status, container, procStream, procData, calls, rb>>

ExecStep(rec) ==
    IF ExecBusy THEN Finish(rec, Busy, "undef") ELSE [rec EXCEPT !.pc = "exec_create"]

Exec(cmd) ==
    /\ ExecBusy \/ CanCall
    /\ calls' = Issue(ExecStep([NewCall("exec", "entry") EXCEPT !.cmd = cmd]))
    /\ ev' = Event("exec", "", "", <<>>, FALSE,
                   ExecStep([NewCall("exec", "entry") EXCEPT !.cmd = cmd]))
    /\ UNCHANGED <<status, container, stream, procStream, procData, chan, rb>>

\* dockerExec: the callback of container.exec (the exec was created).
ExecCreated(rec, r) ==
    IF r = "error" THEN Finish(rec, "exec_failed", "undef")
    ELSE [rec EXCEPT !.pc = "exec_start"]

DockerExec(c, r) ==
    /\ c.pc = "exec_create"
    /\ calls' = Store(c, ExecCreated(c, r))
    /\ ev' = Event("dockerExec", r, "", <<>>, FALSE, ExecCreated(c, r))
    /\ UNCHANGED <<status, container, stream, procStream, procData, chan, rb>>

\* ExecStartFailed that ends the call without calling next.
ExecStartFailedSilent(rec, r) == [rec EXCEPT !.pc = "done"]

\* Without a stream exec.start's callback ends in next(execErr), and execErr
\* is undefined when only the stream is missing.
ExecStartFailed(rec, r) ==
    Finish(rec, IF r = "error" THEN "exec_start_failed" ELSE "none", "undef")

\* dockerExecStartStart: the callback of exec.start.  With a stream the
\* listeners are installed and next is not called; the call is over.
DockerExecStartStart(c, r) ==
    /\ c.pc = "exec_start"
    /\ IF r = "ok"
       THEN /\ CanOpen
            /\ chan' = Opened("exec")
            /\ calls' = calls (-) SetToBag({c})
            /\ ev' = Event("dockerExecStartStart", r, "orphan", <<>>, FALSE,
                           [c EXCEPT !.pc = "exec_stream"])
       ELSE /\ calls' = Store(c, ExecStartFailed(c, r))
            /\ ev' = Event("dockerExecStartStart", r, "", <<>>, FALSE,
                           ExecStartFailed(c, r))
            /\ UNCHANGED chan
    /\ UNCHANGED <<status, container, stream, procStream, procData, rb>>

DockerExecStreamData(ch, d) ==
    /\ Emits("exec", ch)
    /\ ev' = [Event("dockerExecStreamData", "", ch, d, FALSE, Idle)
                 EXCEPT !.out = ServerOutput(d)]
    /\ UNCHANGED <<status, container, stream, procStream, procData, chan, calls, rb>>

DockerExecStreamEnd(ch) ==
    /\ Emits("exec", ch)
    /\ chan' = Ended("exec")
    /\ ev' = Event("dockerExecStreamEnd", "", ch, <<>>, TRUE, Idle)
    /\ UNCHANGED <<status, container, stream, procStream, procData, calls, rb>>

\* write(): what reaches the stream's input, and what the callback is given.
WriteBytes(cmd) == IF IsWritable(stream) THEN cmd \o <<"\n">> ELSE <<>>
WriteError == IF IsWritable(stream) THEN "none" ELSE NoStream

Write(cmd) ==
    /\ ev' = Event("write", "", IF IsWritable(stream) THEN "held" ELSE "",
                   WriteBytes(cmd), FALSE,
                   Finish([NewCall("write", "entry") EXCEPT !.cmd = cmd],
                          WriteError, "undef"))
    /\ UNCHANGED <<status, container, stream, procStream, procData, chan, calls, rb>>

\* ---------------------------------------------------------------- telemetry
Stats ==
    /\ CanCall
    /\ calls' = Issue(NewCall("stats", "stats"))
    /\ ev' = Event("stats", "", "", <<>>, FALSE, NewCall("stats", "stats"))
    /\ UNCHANGED <<status, container, stream, procStream, procData, chan, rb>>

\* dockerTop that reports no error when the feed cannot be opened.
DockerTopSwallows(c, r) ==
    /\ c.pc = "stats"
    /\ IF r = "error"
       THEN /\ calls' = Store(c, AttachNext(c, "none"))
            /\ ev' = Event("dockerTop", r, "", <<>>, FALSE, AttachNext(c, "none"))
            /\ UNCHANGED <<procStream, chan>>
       ELSE /\ CanOpen
            /\ chan' = Opened("stats")
            /\ procStream' = TRUE
            /\ calls' = Store(c, AttachNext(c, "none"))
            /\ ev' = Event("dockerTop", r, "held", <<>>, FALSE,
                           AttachNext(c, "none"))
    /\ UNCHANGED <<status, container, stream, procData, rb>>

\* dockerTop: the callback of container.stats, for a direct stats() call and
\* for the one attach() makes.
DockerTop(c, r) ==
    /\ c.pc = "stats"
    /\ IF r = "error"
       THEN /\ calls' = Store(c, AttachNext(c, "stats_failed"))
            /\ ev' = Event("dockerTop", r, "", <<>>, FALSE,
                           AttachNext(c, "stats_failed"))
            /\ UNCHANGED <<procStream, chan>>
       ELSE /\ CanOpen
            /\ chan' = Opened("stats")
            /\ procStream' = TRUE
            /\ calls' = Store(c, AttachNext(c, "none"))
            /\ ev' = Event("dockerTop", r, "held", <<>>, FALSE,
                           AttachNext(c, "none"))
    /\ UNCHANGED <<status, container, stream, procData, rb>>

\* Decode that clears the snapshot on a payload that does not decode.
DecodeClears(old, d) ==
    LET r == JSONParse(d) IN IF r.ok THEN r.v ELSE Undefined

\* The try/catch around JSON.parse: a payload that does not decode is dropped.
Decode(old, d) ==
    LET r == JSONParse(d) IN IF r.ok THEN r.v ELSE old

\* What the listener throws to the stream that emitted the event.
DecodeThrows(d) == FALSE

DockerTopStreamData(ch, d) ==
    /\ Emits("stats", ch)
    /\ procData' = Decode(procData, d)
    /\ ev' = Event("dockerTopStreamData", IF DecodeThrows(d) THEN "throws" ELSE "",
                   ch, d, FALSE, Idle)
    /\ UNCHANGED <<status, container, stream, procStream, chan, calls, rb>>

\* dockerTopSteamEnd that keeps the snapshot.
DockerTopSteamEndKeeps(ch) ==
    /\ Emits("stats", ch)
    /\ chan' = Ended("stats")
    /\ procStream' = FALSE
    /\ ev' = Event("dockerTopSteamEnd", "", ch, <<>>, FALSE, Idle)
    /\ UNCHANGED <<status, container, stream, procData, calls, rb>>

DockerTopSteamEnd(ch) ==
    /\ Emits("stats", ch)
    /\ chan' = Ended("stats")
    /\ procStream' = FALSE
    /\ procData' = Undefined
    /\ ev' = Event("dockerTopSteamEnd", "", ch, <<>>, FALSE, Idle)
    /\ UNCHANGED <<status, container, stream, calls, rb>>

\* ---------------------------------------------------------------- lifecycle
Start ==
    /\ CanCall
    /\ calls' = Issue(NewCall("start", "start"))
    /\ ev' = Event("start", "", "", <<>>, FALSE, NewCall("start", "start"))
    /\ UNCHANGED <<status, container, stream, procStream, procData, chan, rb>>

\* What container.start calls back with: "ok" is no error.
StartResults == {"ok", AlreadyStarted, "start_failed"}

\* err.message.indexOf('... container already started') > -1
IsAlreadyStarted(r) == r = AlreadyStarted

\* StartStatus without the already-started branch's setStatus(ON).
StartStatusNoIdempotence(r, old) ==
    IF r # "ok" THEN old ELSE "STARTING"

\* dockerStart's three branches: the status it sets and the error it passes.
StartStatus(r, old) ==
    IF r # "ok" /\ IsAlreadyStarted(r) THEN "ON"
    ELSE IF r # "ok" THEN old
    ELSE "STARTING"

StartError(r) ==
    IF r # "ok" /\ IsAlreadyStarted(r) THEN "none"
    ELSE IF r # "ok" THEN r
    ELSE "none"

\* dockerStart: the callback of container.start.
DockerStart(c, r) ==
    /\ c.pc = "start"
    /\ status' = StartStatus(r, status)
    /\ calls' = Store(c, Finish(c, StartError(r), "undef"))
    /\ ev' = Event("dockerStart", r, "", <<>>, FALSE,
                   Finish(c, StartError(r), "undef"))
    /\ UNCHANGED <<container, stream, procStream, procData, chan, rb>>

\* stop() that also marks the server as stopping.
LifecycleSetsStatus(op) ==
    /\ CanCall
    /\ calls' = Issue(NewCall(op, op))
    /\ ev' = Event(op, "", "", <<>>, FALSE, NewCall(op, op))
    /\ status' = IF op = "stop" THEN "STOPPING" ELSE status
    /\ UNCHANGED <<container, stream, procStream, procData, chan, rb>>

\* stop(), kill(), pause(), unpause()
Lifecycle(op) ==
    /\ CanCall
    /\ calls' = Issue(NewCall(op, op))
    /\ ev' = Event(op, "", "", <<>>, FALSE, NewCall(op, op))
    /\ UNCHANGED <<status, container, stream, procStream, procData, chan, rb>>

\* dockerStop and the anonymous callbacks of kill, pause and unpause.
DockerLifecycle(c, r) ==
    /\ c.pc \in PassThrough
    /\ calls' = Store(c, Finish(c, r, "undef"))
    /\ ev' = Event("dockerLifecycle", r, "", <<>>, FALSE, Finish(c, r, "undef"))
    /\ UNCHANGED <<status, container, stream, procStream, procData, chan, rb>>

\* ------------------------------------------------------------------ rebuild
\* The regular expression /^\d{1,6}$/ of the port test.
MinPortDigits == 1
MaxPortDigits == 6
DecDigits == {"0", "1", "2", "3", "4", "5", "6", "7", "8", "9"}

IsPort(p) ==
    /\ Len(p) >= MinPortDigits
    /\ Len(p) <= MaxPortDigits
    /\ \A i \in 1..Len(p) : p[i] \in DecDigits

\* bindings[port + '/' + proto] = [{HostIp, HostPort}]: the key's earlier
\* value, if any, is replaced.
Bind(b, port, proto, ip) ==
    {x \in b : ~(x.port = port /\ x.proto = proto)}
        \cup {[port |-> port, proto |-> proto, HostIp |-> ip, HostPort |-> port]}

\* The Async.each iteratee, for one entry of one IP's list.
BindPort(plan, ip, port) ==
    IF ~IsPort(port) THEN plan
    ELSE [plan EXCEPT
            !.bindings = Bind(Bind(@, port, "tcp", ip), port, "udp", ip),
            !.exposed = @ \cup {[port |-> port, proto |-> "tcp"],
                                [port |-> port, proto |-> "udp"]}]

RECURSIVE BindList(_, _, _, _)
BindList(plan, ip, ports, i) ==
    IF i > Len(ports) THEN plan
    ELSE BindList(BindPort(plan, ip, ports[i]), ip, ports, i + 1)

\* The Async.forEachOf iteratee: a value that is no array is passed over.
RECURSIVE BindIps(_, _, _)
BindIps(plan, cfgPorts, i) ==
    IF i > Len(cfgPorts) THEN plan
    ELSE BindIps(IF cfgPorts[i].isArray
                 THEN BindList(plan, cfgPorts[i].ip, cfgPorts[i].ports, 1)
                 ELSE plan,
                 cfgPorts, i + 1)

\* The second step of the series; its callback never carries an error.
NoPlan == [bindings |-> {}, exposed |-> {}, err |-> "none", built |-> FALSE]
PortBindingsOf(cfgPorts) ==
    [BindIps(NoPlan, cfgPorts, 1) EXCEPT !.built = TRUE]

\* Port tokens of a configuration: valid ones of 2 and 6 digits, and a
\* 7-digit, a non-numeric, a mixed and an empty one.
PortTokens ==
    {<<"8", "0">>, <<"1", "2", "3", "4", "5", "6">>,
     <<"1", "2", "3", "4", "5", "6", "7">>, <<"a", "b", "c">>, <<"8", "a">>, <<>>}

IpOf(i) == "10.0.0." \o ToString(i)

SeqsUpTo(S, n) == UNION {[1..k -> S] : k \in 0..n}

PortEntries(i) ==
    {[ip |-> IpOf(i), isArray |-> FALSE, ports |-> <<>>]}
        \cup {[ip |-> IpOf(i), isArray |-> TRUE, ports |-> ps] :
                 ps \in SeqsUpTo(PortTokens, MaxPorts)}

\* config.ports: an object keyed by host IP, in key order.
PortConfigs ==
    UNION {{f \in [1..k -> UNION {PortEntries(i) : i \in 1..k}] :
               \A i \in 1..k : f[i].ip = IpOf(i)} : k \in 0..MaxIps}

DefaultPorts ==
    <<[ip |-> IpOf(1), isArray |-> TRUE, ports |-> <<<<"8", "0">>>>]>>

\* Two host IPs, each with a port of its own.
TwoIpPorts ==
    <<[ip |-> IpOf(1), isArray |-> TRUE, ports |-> <<<<"8", "0">>>>],
      [ip |-> IpOf(2), isArray |-> TRUE, ports |-> <<<<"4", "4", "3">>, <<"8", "a">>>>]>>

\* this.server.json.build
Config(ports) ==
    [image |-> "image", ports |-> ports, memory |-> 512, swap |-> 256, cpu |-> 50,
     env |-> <<>>, default |-> [ip |-> IpOf(1), port |-> 80]]

\* config.env: an object, here its keys in insertion order with their
\* values.  The keys a configuration may come with, the derived ones
\* included.
DerivedKeys == {"SERVER_MEMORY", "SERVER_IP", "SERVER_PORT"}
EnvKeys == DerivedKeys \cup {"FOO"}
UserEnvs ==
    {e \in SeqsUpTo([k : EnvKeys, v : {"x"}], MaxEnv) :
        \A i, j \in 1..Len(e) : e[i].k = e[j].k => i = j}

\* An assignment that leaves a key the object already has as it is.
SetEnvKeepsUser(env, k, v) ==
    IF \E i \in 1..Len(env) : env[i].k = k THEN env
    ELSE Append(env, [k |-> k, v |-> v])

\* config.env[k] = v: the value of a key the object has is replaced where
\* the key is, a new key is added at the end.
SetEnv(env, k, v) ==
    IF \E i \in 1..Len(env) : env[i].k = k
    THEN [i \in 1..Len(env) |-> IF env[i].k = k THEN [k |-> k, v |-> v] ELSE env[i]]
    ELSE Append(env, [k |-> k, v |-> v])

\* Add some additional environment variables
DerivedEnv(cfg) ==
    SetEnv(SetEnv(SetEnv(cfg.env, "SERVER_MEMORY", ToString(cfg.memory)),
                  "SERVER_IP", cfg.default.ip),
           "SERVER_PORT", ToString(cfg.default.port))

\* environment.push(Util.format('%s=%s', index, value))
Environment(cfg) ==
    [i \in 1..Len(DerivedEnv(cfg)) |->
        DerivedEnv(cfg)[i].k \o "=" \o DerivedEnv(cfg)[i].v]

MemoryValues == (-MaxMb..MaxMb) \cup {512}
SwapValues == (-MaxMb..MaxMb) \cup {256}
CpuValues == (-MaxCpu..MaxCpu) \cup {50}

\* swapSpace without the test of config.memory.
SwapSpaceAnyMemory(cfg) ==
    IF cfg.swap < 0 THEN -1
    ELSE IF cfg.swap > 0 THEN (cfg.memory + cfg.swap) * 1000000
    ELSE 0

\* How Much Swap?
SwapSpace(cfg) ==
    IF cfg.swap < 0 THEN -1
    ELSE IF cfg.swap > 0 /\ cfg.memory > 0 THEN (cfg.memory + cfg.swap) * 1000000
    ELSE 0

\* CpuPeriod that is set whatever config.cpu is.
CpuPeriodAlways(cfg) == 100000

CpuQuota(cfg) == IF cfg.cpu > 0 THEN cfg.cpu * 1000 ELSE -1
CpuPeriod(cfg) == IF cfg.cpu > 0 THEN 100000 ELSE 0

\* The HostConfig of the createContainer request.
HostConfig(cfg) ==
    [CpuQuota |-> CpuQuota(cfg), CpuPeriod |-> CpuPeriod(cfg),
     Memory |-> cfg.memory * 1000000, MemorySwap |-> SwapSpace(cfg)]

\* RebuildStep that requests the creation at once.
RebuildStepNoImage(rec) == [rec EXCEPT !.pc = "create", !.nCreate = @ + 1]

\* rebuild(): the first step of the series asks for the image.
RebuildStep(rec) ==
    IF rb.auto = FALSE
    THEN [rec EXCEPT !.pc = "exists", !.nExists = @ + 1]
    ELSE [rec EXCEPT !.pc = "pull", !.nPull = @ + 1]

Rebuild ==
    /\ CanCall
    /\ rb.builds < MaxBuilds
    /\ calls' = Issue(RebuildStep(NewCall("rebuild", "entry")))
    /\ rb' = [rb EXCEPT !.builds = @ + 1]
    /\ ev' = Event("rebuild", "", "", <<>>, FALSE, RebuildStep(NewCall("rebuild", "entry")))
    /\ UNCHANGED <<status, container, stream, procStream, procData, chan>>

\* Steps two and three of the series, run when step one calls back without
\* an error: the bindings are built and the creation is requested.
CreateStep(rec) ==
    LET plan == PortBindingsOf(rb.cfg.ports)
    IN  [rec EXCEPT !.pc = "create", !.nCreate = @ + 1,
                    !.bindings = plan.bindings, !.exposed = plan.exposed,
                    !.host = HostConfig(rb.cfg), !.env = Environment(rb.cfg)]

\* ExistsStep that never pulls.
ExistsStepNoPull(rec, r) == CreateStep(rec)

\* The callback of ImageHelper.exists.
ExistsStep(rec, r) ==
    IF r = "ok" THEN CreateStep(rec)
    ELSE [rec EXCEPT !.pc = "pull", !.nPull = @ + 1]

ImageExists(c, r) ==
    /\ c.pc = "exists"
    /\ calls' = Store(c, ExistsStep(c, r))
    /\ ev' = Event("imageExists", r, "", <<>>, FALSE, ExistsStep(c, r))
    /\ UNCHANGED <<status, container, stream, procStream, procData, chan, rb>>

\* PullStep that goes on to the creation whatever the pull answered.
PullStepGoesOn(rec, r) == CreateStep(rec)

\* The callback of ImageHelper.pull.
PullStep(rec, r) ==
    IF r = "ok" THEN CreateStep(rec) ELSE Finish(rec, "pull_failed", "undef")

ImagePull(c, r) ==
    /\ c.pc = "pull"
    /\ calls' = Store(c, PullStep(c, r))
    /\ ev' = Event("imagePull", r, "", <<>>, FALSE, PullStep(c, r))
    /\ UNCHANGED <<status, container, stream, procStream, procData, chan, rb>>

\* this.container is assigned in the constructor only: creating a container
\* leaves the controller bound to the one it had.
HandleAfterCreate(old, new) == old

NewId == rb.made + 2

\* The completion of the series: without an error, this.container.remove is
\* requested; with one, next(err).
SeriesDone(rec, r) ==
    IF r = "ok"
    THEN [rec EXCEPT !.pc = "remove", !.nRemove = @ + 1, !.newId = NewId,
                     !.target = HandleAfterCreate(container, NewId)]
    ELSE Finish(rec, "create_failed", "undef")

\* The callback of createContainer, which completes the series.
DockerCreate(c, r) ==
    /\ c.pc = "create"
    /\ rb' = IF r = "ok"
             THEN [rb EXCEPT !.made = @ + 1, !.live = @ \cup {NewId}]
             ELSE rb
    /\ container' = IF r = "ok" THEN HandleAfterCreate(container, NewId) ELSE container
    /\ calls' = Store(c, SeriesDone(c, r))
    /\ ev' = Event("dockerCreate", r, "", <<>>, FALSE, SeriesDone(c, r))
    /\ UNCHANGED <<status, stream, procStream, procData, chan>>

\* RebuildResult that drops the result when the removal failed.
RebuildResultErrorOnly(rec, r) ==
    IF r = "ok"
    THEN [Finish(rec, "none", "undef")
             EXCEPT !.rid = rec.newId, !.rimage = rb.cfg.image]
    ELSE Finish(rec, "remove_failed", "undef")

\* next(removeError, {id: data[2].id, image: config.image})
RebuildResult(rec, r) ==
    [Finish(rec, IF r = "ok" THEN "none" ELSE "remove_failed", "undef")
        EXCEPT !.rid = rec.newId, !.rimage = rb.cfg.image]

\* The callback of this.container.remove.
DockerRemove(c, r) ==
    /\ c.pc = "remove"
    /\ r = "ok" => c.target \in rb.live
    /\ calls' = Store(c, RebuildResult(c, r))
    /\ rb' = IF r = "ok" THEN [rb EXCEPT !.live = @ \ {c.target}] ELSE rb
    /\ ev' = Event("dockerRemove", r, "", <<>>, FALSE, RebuildResult(c, r))
    /\ UNCHANGED <<status, container, stream, procStream, procData, chan>>

\* The second step of the series on its own, applied to the configuration.
PortBindings ==
    /\ ~rb.plan.built
    /\ rb' = [rb EXCEPT !.plan = PortBindingsOf(rb.cfg.ports)]
    /\ ev' = Event("portBindings", "", "", <<>>, FALSE, Idle)
    /\ UNCHANGED <<status, container, stream, procStream, procData, chan, calls>>

\* The descriptor step on its own: the HostConfig built from the
\* configuration.
CreateContainer ==
    /\ rb.desc = <<>>
    /\ rb' = [rb EXCEPT !.desc = HostConfig(rb.cfg), !.env = Environment(rb.cfg)]
    /\ ev' = Event("createContainer", "", "", <<>>, FALSE, Idle)
    /\ UNCHANGED <<status, container, stream, procStream, procData, chan, calls>>

\* ----------------------------------------------------------- specifications
Runtime(cfgPorts, auto) ==
    [cfg |-> Config(cfgPorts), auto |-> auto, live |-> {1}, made |-> 0,
     builds |-> 0, plan |-> NoPlan, desc |-> <<>>, env |-> <<>>]

\* The constructor has run: nothing is attached.
Constructed ==
    /\ container = 1
    /\ stream = FALSE
    /\ procStream = FALSE
    /\ procData = Undefined
    /\ chan = [k \in Kinds |-> 0]

\* A server that is constructed with its controller is OFF.
InitController ==
    /\ status = "OFF"
    /\ Constructed

\* The constructor's reattach() has asked the runtime for the container's
\* state.
Init ==
    /\ InitController
    /\ calls = SetToBag({CallOn("reattach", "inspect", 1)})
    /\ ev = Event("constructor", "", "", <<>>, FALSE, CallOn("reattach", "inspect", 1))
    /\ rb = Runtime(DefaultPorts, FALSE)

Next ==
    \/ Reattach
    \/ \E c \in At("inspect"), r \in InspectResults : DockerReattach(c, r)
    \/ Attach
    \/ \E c \in At("attach"), r \in {"ok", "error"} : DockerAttach(c, r)
    \/ \E ch \in Which, d \in OutChunks : DockerAttachStreamData(ch, d)
    \/ \E ch \in Which : DockerAttachStreamEnd(ch)
    \/ \E cmd \in Commands : Exec(cmd)
    \/ \E c \in At("exec_create"), r \in {"ok", "error"} : DockerExec(c, r)
    \/ \E c \in At("exec_start"), r \in {"ok", "error", "nostream"} :
          DockerExecStartStart(c, r)
    \/ \E ch \in {"orphan"}, d \in OutChunks : DockerExecStreamData(ch, d)
    \/ \E ch \in {"orphan"} : DockerExecStreamEnd(ch)
    \/ \E cmd \in Commands : Write(cmd)
    \/ Stats
    \/ \E c \in At("stats"), r \in {"ok", "error"} : DockerTop(c, r)
    \/ \E ch \in Which, d \in TeleChunks : DockerTopStreamData(ch, d)
    \/ \E ch \in Which : DockerTopSteamEnd(ch)

Spec == Init /\ [][Next]_vars

\* The rebuild pipeline of a controller whose reconciliation found the
\* container not running, with the lifecycle calls made against its handle,
\* whatever the server's status is by then.
InitRebuild ==
    /\ status \in Status
    /\ Constructed
    /\ calls = EmptyBag
    /\ ev = Event("dockerReattach", "false", "", <<>>, FALSE,
                  Finish(CallOn("reattach", "inspect", 1), "none", "undef"))
    /\ \E auto \in BOOLEAN, ps \in {DefaultPorts, TwoIpPorts} :
          rb = Runtime(ps, auto)

NextRebuild ==
    \/ Rebuild
    \/ \E c \in At("exists"), r \in {"ok", "error"} : ImageExists(c, r)
    \/ \E c \in At("pull"), r \in {"ok", "error"} : ImagePull(c, r)
    \/ \E c \in At("create"), r \in {"ok", "error"} : DockerCreate(c, r)
    \/ \E c \in At("remove"), r \in {"ok", "error"} : DockerRemove(c, r)
    \/ Start
    \/ \E c \in At("start"), r \in StartResults : DockerStart(c, r)
    \/ \E op \in PassThrough : Lifecycle(op)
    \/ \E c \in BagToSet(calls), r \in {"none", "lifecycle_failed"} :
          DockerLifecycle(c, r)

SpecRebuild == InitRebuild /\ [][NextRebuild]_vars

\* The port-binding step over every configuration within the bounds.
InitPorts ==
    /\ InitController
    /\ calls = EmptyBag
    /\ ev = Event("dockerReattach", "false", "", <<>>, FALSE,
                  Finish(CallOn("reattach", "inspect", 1), "none", "undef"))
    /\ \E ps \in PortConfigs : rb = Runtime(ps, FALSE)

SpecPorts == InitPorts /\ [][PortBindings]_vars

\* The descriptor step over every memory, swap and cpu within the bounds.
InitDescriptor ==
    /\ InitController
    /\ calls = EmptyBag
    /\ ev = Event("dockerReattach", "false", "", <<>>, FALSE,
                  Finish(CallOn("reattach", "inspect", 1), "none", "undef"))
    /\ \E m \in MemoryValues, sw \in SwapValues, cpu \in CpuValues :
          rb = [Runtime(DefaultPorts, FALSE) EXCEPT
                   !.cfg.memory = m, !.cfg.swap = sw, !.cfg.cpu = cpu]

SpecDescriptor == InitDescriptor /\ [][CreateContainer]_vars

\* The descriptor step over every environment and memory within the bounds.
InitEnvironment ==
    /\ InitController
    /\ calls = EmptyBag
    /\ ev = Event("dockerReattach", "false", "", <<>>, FALSE,
                  Finish(CallOn("reattach", "inspect", 1), "none", "undef"))
    /\ \E e \in UserEnvs, m \in MemoryValues :
          rb = [Runtime(DefaultPorts, FALSE) EXCEPT !.cfg.env = e, !.cfg.memory = m]

SpecEnvironment == InitEnvironment /\ [][CreateContainer]_vars

\* The pass-through calls of a controller that is attached, with a usage
\* snapshot or none yet, or is not attached, whatever the server's status.
InitLifecycle ==
    /\ status \in Status
    /\ container = 1
    /\ calls = EmptyBag
    /\ rb = Runtime(DefaultPorts, FALSE)
    /\ \/ /\ stream = FALSE /\ procStream = FALSE /\ procData = Undefined
          /\ chan = [k \in Kinds |-> 0]
          /\ ev = Event("dockerReattach", "false", "", <<>>, FALSE,
                        Finish(CallOn("reattach", "inspect", 1), "none", "undef"))
       \/ /\ stream = TRUE /\ procStream = TRUE
          /\ procData \in {Undefined, JSONParse(PayloadA).v}
          /\ chan = [k \in Kinds |-> IF k = "exec" THEN 0 ELSE 1]
          /\ ev = Event("dockerTop", "ok", "held", <<>>, FALSE,
                        AttachNext(CallOn("reattach", "stats", 1), "none"))

NextLifecycle ==
    \/ \E op \in PassThrough : Lifecycle(op)
    \/ \E c \in BagToSet(calls), r \in {"none", "lifecycle_failed"} :
          DockerLifecycle(c, r)

SpecLifecycle == InitLifecycle /\ [][NextLifecycle]_vars

\* A controller whose reconciliation found the container running and
\* attached to it.
InitFrame ==
    /\ InitLifecycle
    /\ status = "ON"
    /\ stream

\* Everything but attach(), exec() and stats() that can happen to it: the
\* pass-through calls, start(), rebuild(), write() and the events of the
\* streams it has.
NextFrame ==
    \/ NextRebuild
    \/ \E cmd \in Commands : Write(cmd)
    \/ \E ch \in Which, d \in OutChunks : DockerAttachStreamData(ch, d)
    \/ \E ch \in Which : DockerAttachStreamEnd(ch)
    \/ \E ch \in Which, d \in TeleChunks : DockerTopStreamData(ch, d)
    \/ \E ch \in Which : DockerTopSteamEnd(ch)

SpecFrame == InitFrame /\ [][NextFrame]_vars

\* attach(), reattach() and rebuild() called one after the other by the code
\* that constructed the controller, before the runtime has answered any
\* request; then the runtime answers every request, which is what the
\* fairness condition says.
InBurst == ev.h \in {"constructor", "attach", "reattach", "rebuild"}

InitLive ==
    /\ InitController
    /\ calls = SetToBag({CallOn("reattach", "inspect", 1)})
    /\ ev = Event("constructor", "", "", <<>>, FALSE, CallOn("reattach", "inspect", 1))
    /\ \E auto \in BOOLEAN : rb = Runtime(DefaultPorts, auto)

Answer ==
    \/ \E c \in At("inspect"), r \in InspectResults : DockerReattach(c, r)
    \/ \E c \in At("attach"), r \in {"ok", "error"} : DockerAttach(c, r)
    \/ \E c \in At("stats"), r \in {"ok", "error"} : DockerTop(c, r)
    \/ \E c \in At("exists"), r \in {"ok", "error"} : ImageExists(c, r)
    \/ \E c \in At("pull"), r \in {"ok", "error"} : ImagePull(c, r)
    \/ \E c \in At("create"), r \in {"ok", "error"} : DockerCreate(c, r)
    \/ \E c \in At("remove"), r \in {"ok", "error"} : DockerRemove(c, r)

NextLive ==
    \/ InBurst /\ Attach
    \/ InBurst /\ Reattach
    \/ InBurst /\ Rebuild
    \/ Answer
    \/ \E ch \in Which : DockerAttachStreamEnd(ch)

SpecLive == InitLive /\ [][NextLive]_vars /\ WF_vars(Answer)

\* ================================================================== claims
\* An attach() call: the API method, or the one dockerReattach makes for a
\* running container.
AttachCalled(e) ==
    \/ e.h = "attach"
    \/ e.h = "dockerReattach" /\ e.arg \in {"true", "other"}

\* An attach session has been asked for and has not ended.
AttachInProgress == chan["attach"] > 0 \/ At("attach") # {}

\* C1: an attach() call made while an earlier attach() is still waiting for
\* the runtime, or while its stream is open, is refused with the busy error,
\* and there is never a second open attach stream.
C1_AttachExclusive ==
    [][/\ (AttachCalled(ev') /\ AttachInProgress) => ev'.call.err = Busy
       /\ chan'["attach"] <= 1]_vars

\* C2: an attach() call made while a session of either kind (attach or exec)
\* is open is refused with the busy error, so that at most one is open.
C2_OneSession ==
    [][(AttachCalled(ev') /\ chan["attach"] + chan["exec"] > 0)
          => (ev'.call.err = Busy /\ chan'["attach"] + chan'["exec"] <= 1)]_vars

\* C3: write(data) is refused with the no-stream error and delivers nothing
\* when no attach stream is open; when one is open it delivers data followed
\* by one newline and completes without error.
C3_Write ==
    ev.h = "write" =>
        /\ ev.call.cb = 1
        /\ IF chan["attach"] > 0
           THEN ev.call.err = "none" /\ ev.data = ev.call.cmd \o <<"\n">>
           ELSE ev.call.err = NoStream /\ ev.data = <<>>

\* C4: dockerStart turns "already started" into success with status ON, a
\* successful start into success with status STARTING, and passes any other
\* error on with status as it was.
C4_StartOutcome ==
    [][ev'.h = "dockerStart" =>
          /\ ev'.call.cb = 1
          /\ IF ev'.arg = AlreadyStarted
             THEN ev'.call.err = "none" /\ status' = "ON"
             ELSE IF ev'.arg = "ok"
             THEN ev'.call.err = "none" /\ status' = "STARTING"
             ELSE ev'.call.err = ev'.arg /\ status' = status]_vars

C4_Witness ==
    /\ ev.h = "dockerStart"
    /\ ev.arg = AlreadyStarted
    /\ ev.call.err = "none"
    /\ status = "ON"

\* C5: when inspect reports the container running, status is ON and attach()
\* has been called before reattach()'s callback runs (the attach request is
\* out and the callback has not run, or attach() itself refused); when it
\* reports not running, status is as it was, nothing is attached or opened
\* and the callback reports success; when inspect fails, the error is passed
\* on, status is as it was and nothing is attached.
C5_Reconcile ==
    [][ev'.h = "dockerReattach" =>
          /\ ev'.arg = "true" =>
                /\ status' = "ON"
                /\ \/ ev'.call.pc = "attach" /\ ev'.call.cb = 0
                   \/ ev'.call.cb = 1 /\ ev'.call.err = Busy
          /\ ev'.arg = "false" =>
                /\ status' = status
                /\ ev'.call.pc = "done" /\ ev'.call.cb = 1 /\ ev'.call.err = "none"
                /\ <<stream, procStream, chan>>' = <<stream, procStream, chan>>
                /\ BagCardinality(calls') = BagCardinality(calls) - 1
          /\ ev'.arg = "error" =>
                /\ status' = status
                /\ ev'.call.pc = "done" /\ ev'.call.cb = 1
                /\ ev'.call.err = "inspect_failed"
                /\ <<stream, procStream, chan>>' = <<stream, procStream, chan>>
                /\ BagCardinality(calls') = BagCardinality(calls) - 1]_vars

C5_Witness ==
    /\ ev.h = "dockerReattach"
    /\ ev.arg = "true"
    /\ status = "ON"
    /\ ev.call.pc = "attach"
    /\ ev.call \in BagToSet(calls)

\* C6: when the creation succeeds the removal of the previous container is
\* requested once; the callback then gets the new container's id and the
\* configured image whether or not the removal failed, a failed removal's
\* error comes with them, and the new container is still there.
C6_Finalization ==
    /\ (ev.h = "dockerCreate" /\ ev.arg = "ok") =>
          /\ ev.call.pc = "remove" /\ ev.call.cb = 0
          /\ ev.call.nRemove = 1
    /\ ev.h = "dockerRemove" =>
          /\ ev.call.cb = 1
          /\ ev.call.nRemove = 1
          /\ ev.call.newId # 0 /\ ev.call.rid = ev.call.newId
          /\ ev.call.rimage = rb.cfg.image
          /\ ev.call.err = (IF ev.arg = "ok" THEN "none" ELSE "remove_failed")
          /\ ev.call.target # ev.call.newId
          /\ ev.call.newId \in rb.live

C6_Witness ==
    /\ ev.h = "dockerRemove"
    /\ ev.arg = "error"
    /\ ev.call.err = "remove_failed"
    /\ ev.call.rid = ev.call.newId
    /\ ev.call.rid \in rb.live

\* C7: once a rebuild has created a container, that container is the one the
\* controller is bound to when the removal of the old one is requested, and
\* the controller is never bound to a container that has been removed.
C7_NewHandleCurrent ==
    /\ \A c \in At("remove") : container = c.newId
    /\ container \in rb.live

\* C8: a failed pull or a failed creation ends rebuild() with that error and
\* no result; no creation follows a failed pull, no removal is requested,
\* and the controller's container is neither replaced nor removed.
RebuildAborted(e) ==
    /\ e.arg = "error"
    /\ e.h \in {"imagePull", "dockerCreate"}

C8_RebuildAbort ==
    [][RebuildAborted(ev') =>
          /\ ev'.call.pc = "done" /\ ev'.call.cb = 1
          /\ ev'.call.err = (IF ev'.h = "imagePull" THEN "pull_failed"
                             ELSE "create_failed")
          /\ ev'.call.rid = 0 /\ ev'.call.rimage = ""
          /\ ev'.h = "imagePull" => ev'.call.nCreate = 0
          /\ ev'.call.nRemove = 0
          /\ container' = container
          /\ rb'.live = rb.live
          /\ BagCardinality(calls') = BagCardinality(calls) - 1]_vars

C8_Witness ==
    /\ ev.h = "imagePull"
    /\ ev.arg = "error"
    /\ ev.call.err = "pull_failed"
    /\ ev.call.nCreate = 0
    /\ container \in rb.live

\* C9: a usage payload that does not decode (a half of a split payload)
\* reaches no caller as an error and leaves the snapshot as it was; one that
\* decodes replaces the snapshot by its decoded value.
DecodedA == Obj(<< <<<<"a">>, Num(1)>> >>)
DecodedB == Obj(<< <<<<"a">>, Num(2)>>, <<<<"b">>, Num(1)>> >>)

C9_TelemetryResilience ==
    [][ev'.h = "dockerTopStreamData" =>
          /\ ev'.arg # "throws"
          /\ calls' = calls
          /\ ev'.data \in {FirstHalf(PayloadA), SecondHalf(PayloadA)}
                => procData' = procData
          /\ ev'.data = PayloadA => procData' = DecodedA
          /\ ev'.data = PayloadB => procData' = DecodedB
          /\ procData' # procData => JSONParse(ev'.data).ok]_vars

C9_Witness ==
    /\ ev.h = "dockerTopStreamData"
    /\ ev.data = FirstHalf(PayloadA)
    /\ procData = DecodedB

\* C10: in the bindings built from a configuration, every entry of 1 to 6
\* decimal digits has a tcp and a udp binding to its own host IP and port
\* and is exposed for both; any other entry has no binding and no exposed
\* port; and the step never reports an error.
HasBinding(plan, ip, port, proto) ==
    /\ [port |-> port, proto |-> proto, HostIp |-> ip, HostPort |-> port]
          \in plan.bindings
    /\ [port |-> port, proto |-> proto] \in plan.exposed

Digits1to6(p) ==
    /\ Len(p) \in 1..6
    /\ \A i \in 1..Len(p) :
          p[i] \in {"0", "1", "2", "3", "4", "5", "6", "7", "8", "9"}

C10_PortValidation ==
    rb.plan.built =>
        /\ rb.plan.err = "none"
        /\ \A i \in 1..Len(rb.cfg.ports) :
              \A j \in 1..Len(rb.cfg.ports[i].ports) :
                 LET ip == rb.cfg.ports[i].ip
                     port == rb.cfg.ports[i].ports[j]
                 IN  IF Digits1to6(port)
                     THEN /\ HasBinding(rb.plan, ip, port, "tcp")
                          /\ HasBinding(rb.plan, ip, port, "udp")
                     ELSE /\ \A b \in rb.plan.bindings : b.port # port
                          /\ \A x \in rb.plan.exposed : x.port # port

\* C11: the descriptor's swap is -1 for a negative swap whatever the
\* memory, (memory + swap) * 1000000 for a positive swap with a positive
\* memory, and 0 otherwise; its memory is memory * 1000000.
C11_Swap ==
    rb.desc # <<>> =>
        /\ rb.cfg.swap < 0 => rb.desc.MemorySwap = -1
        /\ (rb.cfg.swap > 0 /\ rb.cfg.memory > 0)
              => rb.desc.MemorySwap = (rb.cfg.memory + rb.cfg.swap) * 1000000
        /\ (rb.cfg.swap = 0 \/ (rb.cfg.swap > 0 /\ rb.cfg.memory <= 0))
              => rb.desc.MemorySwap = 0
        /\ rb.desc.Memory = rb.cfg.memory * 1000000

C11_Witness ==
    /\ rb.desc # <<>>
    /\ rb.cfg.memory = 512 /\ rb.cfg.swap = 256
    /\ rb.desc.MemorySwap = 768000000

\* A positive swap with a memory that is not positive gives no swap.
C11_WitnessNoMemory ==
    /\ rb.desc # <<>>
    /\ rb.cfg.memory = 0 /\ rb.cfg.swap = 1
    /\ rb.desc.MemorySwap = 0

\* C12: a positive cpu gives quota cpu * 1000 and period 100000, any other
\* cpu gives quota -1 and period 0; the quota is -1 exactly when the period
\* is 0.
C12_Cpu ==
    rb.desc # <<>> =>
        /\ rb.cfg.cpu > 0 =>
              rb.desc.CpuQuota = rb.cfg.cpu * 1000 /\ rb.desc.CpuPeriod = 100000
        /\ rb.cfg.cpu <= 0 => rb.desc.CpuQuota = -1 /\ rb.desc.CpuPeriod = 0
        /\ rb.desc.CpuQuota = -1 <=> rb.desc.CpuPeriod = 0

C12_Witness ==
    /\ rb.desc # <<>>
    /\ rb.cfg.cpu = 0
    /\ rb.desc.CpuQuota = -1 /\ rb.desc.CpuPeriod = 0

\* The bindings of a call cover every port list of the configuration.
PortsProcessed(c) ==
    \A i \in 1..Len(rb.cfg.ports) :
       \A j \in 1..Len(rb.cfg.ports[i].ports) :
          LET port == rb.cfg.ports[i].ports[j]
          IN  Digits1to6(port) =>
                 \A proto \in {"tcp", "udp"} :
                    /\ [port |-> port, proto |-> proto] \in c.exposed
                    /\ \E b \in c.bindings : b.port = port /\ b.proto = proto

\* C13: the creation is requested only by the callback that reports the
\* image assured, with the bindings of every host IP's port list built; the
\* removal is requested only by the callback that reports the creation
\* done; and a call that still waits for its image has requested neither.
C13_PhaseOrder ==
    /\ ev.call.pc = "create" =>
          /\ ev.h \in {"imageExists", "imagePull"} /\ ev.arg = "ok"
    /\ ev.call.pc = "remove" => ev.h = "dockerCreate" /\ ev.arg = "ok"
    /\ \A c \in BagToSet(calls) :
          /\ c.pc \in {"exists", "pull"} =>
                c.nCreate = 0 /\ c.nRemove = 0 /\ c.bindings = {}
          /\ c.pc = "create" =>
                c.nCreate = 1 /\ c.nRemove = 0 /\ PortsProcessed(c)
          /\ c.pc = "remove" =>
                c.nCreate = 1 /\ c.nRemove = 1 /\ c.newId # 0

C13_Witness ==
    /\ ev.h = "dockerCreate"
    /\ ev.call.pc = "remove"
    /\ Len(rb.cfg.ports) = 2
    /\ PortsProcessed(ev.call)
    /\ ev.call.nExists = 1 /\ ev.call.nPull = 1

\* C14: without autoupdate rebuild() asks first whether the image exists and
\* pulls exactly when the answer is not that it does; with autoupdate it
\* pulls and never asks; and a failed pull ends the call with the pull's
\* error and no creation.
C14_ImagePolicy ==
    /\ ev.h = "rebuild" =>
          IF rb.auto
          THEN ev.call.pc = "pull" /\ ev.call.nPull = 1 /\ ev.call.nExists = 0
          ELSE ev.call.pc = "exists" /\ ev.call.nExists = 1 /\ ev.call.nPull = 0
    /\ ev.h = "imageExists" =>
          /\ ~rb.auto /\ ev.call.nExists = 1
          /\ ev.arg = "ok" => ev.call.nPull = 0 /\ ev.call.pc = "create"
          /\ ev.arg # "ok" => ev.call.nPull = 1 /\ ev.call.pc = "pull"
    /\ ev.h = "imagePull" =>
          /\ ev.call.nPull = 1
          /\ ev.call.nExists = (IF rb.auto THEN 0 ELSE 1)
          /\ ev.arg = "ok" => ev.call.pc = "create" /\ ev.call.cb = 0
          /\ ev.arg # "ok" =>
                /\ ev.call.pc = "done" /\ ev.call.cb = 1
                /\ ev.call.err = "pull_failed" /\ ev.call.nCreate = 0
    /\ \A c \in BagToSet(calls) :
          /\ rb.auto => c.nExists = 0
          /\ c.pc \in {"create", "remove"} => c.nExists + c.nPull >= 1

C14_Witness ==
    /\ ev.h = "imageExists"
    /\ ev.arg = "error"
    /\ ev.call.pc = "pull"
    /\ ev.call.nPull = 1

\* A handler of exec() or of the stream it opened.
ExecHandlers ==
    {"exec", "dockerExec", "dockerExecStartStart", "dockerExecStreamData",
     "dockerExecStreamEnd"}

\* C15: exec() made while an attach stream is open is refused with the busy
\* error and sends no request; no handler of exec() or of its stream
\* changes the attach session reference; and the end of an exec stream is
\* reported to the server as a closed stream.
C15_ExecFrame ==
    [][/\ (ev'.h = "exec" /\ chan["attach"] > 0) =>
             /\ ev'.call.err = Busy /\ ev'.call.cb = 1 /\ ev'.call.pc = "done"
             /\ BagCardinality(calls') = BagCardinality(calls)
       /\ ev'.h \in ExecHandlers => stream' = stream
       /\ ev'.h = "dockerExecStreamEnd" => ev'.closed]_vars

\* C16 as stated: the end of an attach stream clears the session, reports
\* the closed stream to the server and sends a stats request.
C16_EndRestartsStats ==
    [][ev'.h = "dockerAttachStreamEnd" =>
          /\ stream' = FALSE
          /\ ev'.closed
          /\ \E c \in BagToSet(calls') : c.pc = "stats" /\ c \notin BagToSet(calls)]_vars

\* C16: the end of an attach stream clears the session, so that attach() is
\* no longer refused and write() is, and reports the closed stream to the
\* server; it sends no stats request and leaves the telemetry stream as it
\* is.  stats() is called by dockerAttach, when the attach succeeded.
C16_EndClears ==
    [][/\ ev'.h = "dockerAttachStreamEnd" =>
             /\ stream' = FALSE
             /\ ~AttachBusy' /\ ~IsWritable(stream')
             /\ ev'.closed
             /\ calls' = calls
             /\ procStream' = procStream
             /\ chan'["stats"] = chan["stats"]
       /\ (ev'.h = "dockerAttach" /\ ev'.arg = "ok") =>
             ev'.call.pc = "stats" /\ ev'.call.cb = 0]_vars

C16_Witness ==
    /\ ev.h = "dockerAttachStreamEnd"
    /\ ev.closed
    /\ ~stream /\ ~procStream
    /\ chan["attach"] = 0 /\ chan["stats"] = 0
    /\ calls = EmptyBag

\* C17: exec()'s callback runs once when exec() is refused, when the exec
\* cannot be created and when it cannot be started or has no stream; when
\* the exec starts with a stream the callback has not run and the call is
\* over, and the stream's data and end run no callback.
C17_ExecCompletion ==
    [][/\ ev'.h = "exec" =>
             IF ExecBusy
             THEN ev'.call.cb = 1 /\ ev'.call.pc = "done" /\ ev'.call.err = Busy
             ELSE ev'.call.cb = 0 /\ ev'.call.pc = "exec_create"
       /\ ev'.h = "dockerExec" =>
             IF ev'.arg = "ok"
             THEN ev'.call.cb = 0 /\ ev'.call.pc = "exec_start"
             ELSE ev'.call.cb = 1 /\ ev'.call.pc = "done"
                     /\ ev'.call.err = "exec_failed"
       /\ ev'.h = "dockerExecStartStart" =>
             /\ BagCardinality(calls') = BagCardinality(calls) - 1
             /\ IF ev'.arg = "ok"
                THEN ev'.call.cb = 0 /\ ev'.call.pc = "exec_stream"
                ELSE ev'.call.cb = 1 /\ ev'.call.pc = "done"
       /\ ev'.h \in {"dockerExecStreamData", "dockerExecStreamEnd"} =>
             calls' = calls /\ ev'.call = Idle
       /\ \A c \in BagToSet(calls') : c.op = "exec" => c.cb = 0]_vars

C17_Witness ==
    /\ ev.h = "dockerExecStreamEnd"
    /\ chan["exec"] = 0
    /\ calls = EmptyBag

\* C18: every entry of 1 to 6 decimal digits has a tcp and a udp binding to
\* its own host IP and port, also when another host IP lists the same port.
C18_BindingsOneToOne ==
    rb.plan.built =>
        \A i \in 1..Len(rb.cfg.ports) :
           \A j \in 1..Len(rb.cfg.ports[i].ports) :
              Digits1to6(rb.cfg.ports[i].ports[j]) =>
                 \A proto \in {"tcp", "udp"} :
                    [port |-> rb.cfg.ports[i].ports[j], proto |-> proto,
                     HostIp |-> rb.cfg.ports[i].ip,
                     HostPort |-> rb.cfg.ports[i].ports[j]] \in rb.plan.bindings

\* dockerReattach has set status ON and called attach().
Reattached(e, st) ==
    /\ st = "ON"
    /\ \/ e.call.pc = "attach" /\ e.call.cb = 0
       \/ e.call.cb = 1 /\ e.call.err = Busy

\* dockerReattach has left status alone, attached nothing and reported
\* success.
NotReattached(e, old, st) ==
    /\ st = old
    /\ e.call.pc = "done" /\ e.call.cb = 1 /\ e.call.err = "none"

\* C19 as stated: status is set ON and attach() is called for every inspect
\* result but an explicit not-running one, a state without a Running field
\* included.
C19_RunningUnlessFalse ==
    [][ev'.h = "dockerReattach" =>
          /\ ev'.arg \in {"true", "other", "undefined"} => Reattached(ev', status')
          /\ ev'.arg = "false" => NotReattached(ev', status, status')]_vars

\* C19: status is set ON and attach() is called when the state has a
\* Running field that is true or any other value but false; when Running is
\* false or the state has no Running field, status is left alone and
\* attach() is not called.
C19_RunningTest ==
    [][ev'.h = "dockerReattach" =>
          /\ ev'.arg \in {"true", "other"} => Reattached(ev', status')
          /\ ev'.arg \in {"false", "undefined"} =>
                /\ NotReattached(ev', status, status')
                /\ <<stream, procStream, chan>>' = <<stream, procStream, chan>>]_vars

C19_Witness ==
    /\ ev.h = "dockerReattach"
    /\ ev.arg = "undefined"
    /\ status = "OFF"
    /\ ev.call.pc = "done" /\ ev.call.err = "none"

\* C20: stop(), kill(), pause() and unpause() send the one runtime request
\* of their name, their callback gets what the runtime answered, and
\* neither step changes status, the attach session reference, the telemetry
\* stream reference or the snapshot.
C20_PassThrough ==
    [][/\ ev'.h \in PassThrough =>
             /\ ev'.call.op = ev'.h /\ ev'.call.pc = ev'.h /\ ev'.call.cb = 0
             /\ calls' = calls (+) SetToBag({ev'.call})
       /\ ev'.h = "dockerLifecycle" =>
             /\ ev'.call.op \in PassThrough
             /\ ev'.call.pc = "done" /\ ev'.call.cb = 1
             /\ ev'.call.err = ev'.arg
             /\ BagCardinality(calls') = BagCardinality(calls) - 1
       /\ ev'.h \in PassThrough \cup {"dockerLifecycle"} =>
             <<status, stream, procStream, procData>>'
                = <<status, stream, procStream, procData>>]_vars

C20_Witness ==
    /\ ev.h = "dockerLifecycle"
    /\ ev.arg = "lifecycle_failed"
    /\ ev.call.err = "lifecycle_failed"
    /\ ev.call.op = "stop"
    /\ status = "ON" /\ stream /\ procStream
    /\ procData # Undefined

\* C21: when the attach succeeded and the usage feed cannot be opened, the
\* callback of attach() (reattach()'s own, when reattach() made the call)
\* runs once with the error of stats and reports no success.
C21_StatsFailure ==
    [][(ev'.h = "dockerTop" /\ ev'.arg = "error"
           /\ ev'.call.op \in {"attach", "reattach"}) =>
          /\ ev'.call.pc = "done" /\ ev'.call.cb = 1
          /\ ev'.call.err = "stats_failed"
          /\ ev'.call.val # "true"
          /\ BagCardinality(calls') = BagCardinality(calls) - 1]_vars

C21_Witness ==
    /\ ev.h = "dockerTop"
    /\ ev.arg = "error"
    /\ ev.call.op = "reattach"
    /\ ev.call.err = "stats_failed" /\ ev.call.val = "false"
    /\ chan["attach"] = 1

ExpectedEnv ==
    {rb.cfg.env[i].k \o "=" \o rb.cfg.env[i].v :
        i \in {j \in 1..Len(rb.cfg.env) : rb.cfg.env[j].k \notin DerivedKeys}}
    \cup {"SERVER_MEMORY=" \o ToString(rb.cfg.memory),
          "SERVER_IP=" \o rb.cfg.default.ip,
          "SERVER_PORT=" \o ToString(rb.cfg.default.port)}

\* C23: the environment of the creation has one entry for each configured
\* key and each of the three derived keys, and the entry of a derived key
\* has the derived value also when the configuration came with that key.
C23_EnvPrecedence ==
    rb.desc # <<>> =>
        /\ {rb.env[i] : i \in 1..Len(rb.env)} = ExpectedEnv
        /\ Len(rb.env) = Cardinality(ExpectedEnv)
        /\ Len(rb.env) =
              Cardinality({rb.cfg.env[i].k : i \in 1..Len(rb.cfg.env)} \cup DerivedKeys)

C23_Witness ==
    /\ rb.desc # <<>>
    /\ Len(rb.cfg.env) = 2
    /\ rb.cfg.env[1] = [k |-> "SERVER_MEMORY", v |-> "x"]
    /\ rb.cfg.memory = 512
    /\ rb.env[1] = "SERVER_MEMORY=512"
    /\ Len(rb.env) = 4

\* C24: the data listener of an attach stream and of an exec stream passes
\* the chunk it is given to server.output() once and as it is, in the step
\* of the event, so in the order of the events; a stream that emits is
\* open, and no other handler, the end listeners included, passes anything
\* to server.output().
C24_OutputForwarding ==
    [][/\ ev'.h = "dockerAttachStreamData" =>
             ev'.out = <<ev'.data>> /\ chan["attach"] > 0
       /\ ev'.h = "dockerExecStreamData" =>
             ev'.out = <<ev'.data>> /\ chan["exec"] > 0
       /\ ev'.h \notin {"dockerAttachStreamData", "dockerExecStreamData"} =>
             ev'.out = <<>>]_vars

C24_Witness ==
    /\ ev.h = "dockerExecStreamData"
    /\ ev.data \in OutChunks
    /\ ev.out = <<ev.data>>
    /\ chan["attach"] = 1

\* C25: the end of a usage stream the controller does not hold leaves the
\* stream reference and the snapshot as they are, and there is a snapshot
\* only while a usage stream is held.
C25_OldFeedEnd ==
    [][/\ (ev'.h = "dockerTopSteamEnd" /\ ev'.ch = "orphan") =>
             procStream' = procStream /\ procData' = procData
       /\ procData' # Undefined => procStream']_vars

\* attach(), or the attach() reattach() made, has completed with an error
\* that is not the busy error.
AttachFailed(e) ==
    /\ e.h \in {"dockerAttach", "dockerTop"}
    /\ e.call.op \in {"attach", "reattach"}
    /\ e.call.pc = "done"
    /\ e.call.err \notin {"none", Busy}

\* C26: when attach() has completed with an error that is not the busy
\* error, the session reference is empty: attach() would not be refused and
\* write() would be.
C26_NoSessionAfterError ==
    AttachFailed(ev) => (~AttachBusy /\ ~IsWritable(stream))

\* C27 as stated: a reattach() that has completed with an error has left
\* status as it was (OFF, the reconciler being the only one here to set it).
C27_StatusUnmodified ==
    (ev.call.op = "reattach" /\ ev.call.pc = "done" /\ ev.call.err # "none")
        => status = "OFF"

\* C27: a reattach() that completes with the error of inspect has left
\* status as it was; for a running container status is set ON before
\* attach() is called, and the step that completes reattach() with an error
\* of attach() or of stats() leaves status as it is, so ON.
C27_OptimisticStatus ==
    [][/\ (ev'.h = "dockerReattach" /\ ev'.arg = "error") =>
             status' = status /\ ev'.call.err = "inspect_failed"
       /\ (ev'.h = "dockerReattach" /\ ev'.arg \in {"true", "other"}) =>
             status' = "ON"
       /\ (ev'.h \in {"dockerAttach", "dockerTop"} /\ ev'.call.op = "reattach") =>
             status' = status /\ status = "ON"]_vars

C27_Witness ==
    /\ ev.h = "dockerAttach"
    /\ ev.arg = "error"
    /\ ev.call.op = "reattach"
    /\ ev.call.pc = "done" /\ ev.call.err = "attach_failed"
    /\ status = "ON"

\* C28: when the runtime answers every request, every attach(), reattach()
\* and rebuild() that was called gets its callback run: no call stays in
\* flight; a call leaves only by its callback, run once; and a call in
\* flight has not had its callback run.
C28_CallbacksOnce ==
    /\ [][/\ ev'.call.pc = "done" => ev'.call.cb = 1
          /\ BagCardinality(calls') < BagCardinality(calls) =>
                ev'.call.pc = "done" /\ ev'.call.cb = 1
          /\ \A c \in BagToSet(calls') : c.cb = 0]_vars
    /\ <>[](calls = EmptyBag)

C28_Witness ==
    /\ calls = EmptyBag
    /\ rb.builds = 1 /\ rb.made = 1
    /\ ev.h = "dockerTop"
    /\ ev.call.op = "reattach"
    /\ ev.call.cb = 1 /\ ev.call.err = "none"

====
